---- MODULE Spec2Model ----
(***************************************************************************)
(* Model of the gx-image-annotations component                             *)
(* (src/src/components/image-annotations/image-annotations.tsx).           *)
(*                                                                         *)
(* Every method of the class is an operator from a component state (a      *)
(* record with one field per instance field) to the component state after  *)
(* the call, so that nested calls and the synchronous re-entry of the      *)
(* traceIndex watcher are composed exactly as the code composes them.      *)
(* One action per event handler / callback commits the result.             *)
(***************************************************************************)
EXTENDS Integers, Sequences, FiniteSets, TLC

\* ---------------------------------------------------------------- constants
EMPTY_TRACE_LIST_INDEX == -3

\* ------------------------------------------------------------------- bounds
MaxTraces  == 3   \* longest trace list explored
MaxPaths   == 1   \* most segments recorded in one trace
MaxPending == 2   \* most toBlob callbacks pending per canvas
MaxLoads   == 1   \* most image load events pending
ExportMaxTraces == 1   \* longest trace list explored by SpecExport
StrokeMaxTraces == 2   \* longest trace list explored by SpecRestyle, SpecStroke
MaxSegments == 2   \* most segments recorded in the whole list by SpecStroke
MaxCount   == 3   \* the counters of cycles and notifications stop here

\* ------------------------------------------------------------------- inputs
Pages       == { [x |-> 11, y |-> 12] }
StrokePages == { [x |-> 11, y |-> 12], [x |-> 21, y |-> 32] }
Colors      == { "#000000", "#ff0000" }
Thicknesses == { 2, 3 }
Sources     == { "a.png", "b.png" }

\* SpecFit: canvas and image sides are 1 .. MaxSide or one of ExampleSides
MaxSide      == 4
ExampleSides == { 150, 300, 600 }
Sides        == (1 .. MaxSide) \cup ExampleSides

\* the background the host sets in SpecExport
ExportSources == { "a.png" }
IndexWrites == (EMPTY_TRACE_LIST_INDEX - 1) .. (MaxTraces + 1)

\* the traceIndex values the host writes in SpecExport
ExportWrites == { EMPTY_TRACE_LIST_INDEX, -1 } \cup (0 .. ExportMaxTraces)

\* the canvas' bounding client rect (getBoundingClientRect)
CanvasRect == [left |-> 1, top |-> 2]

NoImage == ""                                \* baseImage = null
NoUrl   == [canvas |-> "", id |-> 0]         \* a null object URL
Blank   == << >>                             \* a cleared canvas bitmap

VARIABLES
  traceList,                   \* @State traceList: TraceData[]
  traceIndex,                  \* @Prop traceIndex
  traceIndexChangedFromInside, \* feedback suppression flag
  initPaint,                   \* painting flag
  listening,                   \* move/up listeners are registered on the canvas
  currentMousePositionX,
  currentMousePositionY,
  baseImage,                   \* NoImage or the src of the current Image
  imageRequest,                \* state of the current Image's request
  lastSavedImageUrl,           \* composed slot
  lastSavedImageAnnUrl,        \* annotation-only slot
  disabled,                    \* @Prop disabled
  traceColor,                  \* @Prop traceColor
  traceThickness,              \* @Prop traceThickness
  value,                       \* @Prop value
  pendingBlobs,                \* toBlob callbacks not yet run, per canvas
  pendingLoads,                \* Image objects whose load event has not fired
  objectUrls,                  \* object URLs created and not revoked
  emitted,                     \* events emitted by the last handler, in order
  calls,                       \* rendering-path calls of the last handler
  lastAnnotationsChange,       \* payload of the latest annotationsChange
  cycles,                      \* export cycles started, counted to MaxCount
  annotationsChanges,          \* annotationsChange events, counted to MaxCount
  surface,                     \* the bitmap of each canvas, as its visible shapes
  snapshots,                   \* bitmaps copied by toBlob, callback not yet run
  savedImage,                  \* the bitmap behind the object URL of each slot
  exports,                     \* export cycles started by the last handler
  lastExport,                  \* the two bitmaps the latest export cycle handed
                               \* to the encoder
  placement,                   \* SpecFit: canvas and image size, and once
                               \* loadImage has run the rectangle it passed
                               \* to drawImage
  refused,                     \* the last handler was a pointer event turned
                               \* down because disabled is set
  connected,                   \* the element is in the document
  rendering                    \* the bitmaps are tracked: a specification that
                               \* does not read them leaves them blank

vars == << traceList, traceIndex, traceIndexChangedFromInside, initPaint,
           listening, currentMousePositionX, currentMousePositionY, baseImage,
           lastSavedImageUrl, lastSavedImageAnnUrl, disabled, traceColor,
           traceThickness, value, pendingBlobs, pendingLoads, objectUrls,
           emitted, calls, lastAnnotationsChange,
           cycles, annotationsChanges, imageRequest, surface, snapshots,
           savedImage, exports, lastExport, placement, refused, connected,
           rendering >>

\* the component as one record
this ==
  [ traceList |-> traceList, traceIndex |-> traceIndex,
    traceIndexChangedFromInside |-> traceIndexChangedFromInside,
    initPaint |-> initPaint, listening |-> listening,
    currentMousePositionX |-> currentMousePositionX,
    currentMousePositionY |-> currentMousePositionY,
    baseImage |-> baseImage,
    lastSavedImageUrl |-> lastSavedImageUrl,
    lastSavedImageAnnUrl |-> lastSavedImageAnnUrl,
    disabled |-> disabled, traceColor |-> traceColor,
    traceThickness |-> traceThickness, value |-> value,
    pendingBlobs |-> pendingBlobs, pendingLoads |-> pendingLoads,
    objectUrls |-> objectUrls, emitted |-> emitted, calls |-> calls,
    lastAnnotationsChange |-> lastAnnotationsChange,
    cycles |-> cycles, annotationsChanges |-> annotationsChanges,
    imageRequest |-> imageRequest, surface |-> surface,
    snapshots |-> snapshots, savedImage |-> savedImage,
    exports |-> exports, lastExport |-> lastExport,
    placement |-> placement,
    refused |-> refused, connected |-> connected,
    rendering |-> rendering,
    thrown |-> FALSE ]           \* no exception is propagating

\* ------------------------------------------------------------------ helpers
\* a call is logged with the pointer and the list length it started with
Call(s, fn, canvas) ==
  [s EXCEPT !.calls = Append(@, [fn |-> fn, canvas |-> canvas,
                                 ind |-> s.traceIndex,
                                 len |-> Len(s.traceList)])]

Emit(s, name, n, payload) ==
  [s EXCEPT !.emitted = Append(@, [name |-> name, index |-> n,
                                   detail |-> payload])]

NoDetail == [annotatedImage |-> NoUrl, annotations |-> NoUrl]

\* a counter that stops at MaxCount
UpTo(n) == IF n > MaxCount THEN MaxCount ELSE n

\* Array.prototype.splice(start): keeps the elements before `start`; a
\* negative start counts from the end of the array
Splice(list, start) ==
  LET from == IF start >= 0 THEN start
              ELSE IF Len(list) + start < 0 THEN 0 ELSE Len(list) + start
  IN  IF from >= Len(list) THEN list ELSE SubSeq(list, 1, from)

\* ---------------------------------------------------------- canvas painting
\* A bitmap is modelled by the shapes painted on it since it was cleared, in
\* painting order. Painting a shape again covers its earlier copy.
Shape(op, src, lastX, lastY, x, y, color, thickness) ==
  [op |-> op, src |-> src, lastX |-> lastX, lastY |-> lastY, x |-> x, y |-> y,
   color |-> color, thickness |-> thickness]

Paint(bitmap, shape) ==
  Append(SelectSeq(bitmap, LAMBDA o : o # shape), shape)

Draw(s, canvas, shape) ==
  IF s.rendering THEN [s EXCEPT !.surface[canvas] = Paint(@, shape)] ELSE s

\* A statement that follows a throw does not run: every method returns the
\* state as it is while an exception propagates (s.thrown).
cleanPaint(s, canvas) ==
  IF s.thrown THEN s
  ELSE [Call(s, "cleanPaint", canvas) EXCEPT !.surface[canvas] = Blank]

\* context.drawImage paints a completely available image, paints nothing
\* while the image is not yet available, and throws InvalidStateError for an
\* image whose request is broken
loadImage(s) ==
  IF s.thrown \/ s.baseImage = NoImage THEN s
  ELSE LET s1 == Call(s, "drawImage", "canvas")
       IN  CASE s.imageRequest = "available" ->
                  Draw(s1, "canvas",
                       Shape("drawImage", s.baseImage, 0, 0, 0, 0, "", 0))
             [] s.imageRequest = "broken" -> [s1 EXCEPT !.thrown = TRUE]
             [] OTHER -> s1

paintPoint(s, canvas, x, y, color, thickness) ==
  IF s.thrown THEN s
  ELSE Draw(s, canvas, Shape("fillRect", "", x, y, x, y, color, thickness))

\* this.traceList[this.traceIndex] is an object (truthy)
HasTrace(s) == s.traceIndex >= 0 /\ s.traceIndex <= Len(s.traceList) - 1

TraceDataPath(lastX, lastY, currentX, currentY) ==
  [lastMousePositionX    |-> lastX,
   lastMousePositionY    |-> lastY,
   currentMousePositionX |-> currentX,
   currentMousePositionY |-> currentY]

\* mutant: the segment is put in front of the recorded segments
joinPathUnshift(s, canvas, lastX, lastY, currentX, currentY, color, thickness, addTolist) ==
  LET s1 == Draw(Call(s, "joinPath", canvas), canvas,
                 Shape("stroke", "", lastX, lastY, currentX, currentY,
                       color, thickness))
  IN  IF addTolist /\ HasTrace(s1)
      THEN [s1 EXCEPT !.traceList[s1.traceIndex + 1].paths =
              << TraceDataPath(lastX, lastY, currentX, currentY) >> \o @]
      ELSE s1

\* mutant: the style the segment is drawn with is stored in the trace
joinPathRestyles(s, canvas, lastX, lastY, currentX, currentY, color, thickness, addTolist) ==
  LET s1 == Draw(Call(s, "joinPath", canvas), canvas,
                 Shape("stroke", "", lastX, lastY, currentX, currentY,
                       color, thickness))
  IN  IF addTolist /\ HasTrace(s1)
      THEN [s1 EXCEPT !.traceList[s1.traceIndex + 1].paths =
              Append(@, TraceDataPath(lastX, lastY, currentX, currentY)),
                      !.traceList[s1.traceIndex + 1].color = color,
                      !.traceList[s1.traceIndex + 1].thickness = thickness]
      ELSE s1

joinPath(s, canvas, lastX, lastY, currentX, currentY, color, thickness, addTolist) ==
  IF s.thrown THEN s
  ELSE LET s1 == Draw(Call(s, "joinPath", canvas), canvas,
                      Shape("stroke", "", lastX, lastY, currentX, currentY,
                            color, thickness))
       IN  IF addTolist /\ HasTrace(s1)
           THEN [s1 EXCEPT !.traceList[s1.traceIndex + 1].paths =
                   Append(@, TraceDataPath(lastX, lastY, currentX, currentY))]
           ELSE s1

RECURSIVE paintPaths(_, _, _, _)
RECURSIVE paintTraces(_, _, _)

\* trace.paths.forEach(path => this.joinPath(..., false)), from the n-th path
paintPaths(s, canvas, trace, n) ==
  IF n > Len(trace.paths) THEN s
  ELSE LET path == trace.paths[n]
       IN  paintPaths(joinPath(s, canvas,
                               path.lastMousePositionX, path.lastMousePositionY,
                               path.currentMousePositionX,
                               path.currentMousePositionY,
                               trace.color, trace.thickness, FALSE),
                      canvas, trace, n + 1)

\* the loop of paintToInd from ind on; reading a field of a trace the list
\* does not hold throws TypeError
paintTraces(s, canvas, ind) ==
  IF s.thrown \/ ind > s.traceIndex THEN s
  ELSE IF ind + 1 > Len(s.traceList) THEN [s EXCEPT !.thrown = TRUE]
  ELSE LET trace == s.traceList[ind + 1]
           s1 == paintPoint(s, canvas, trace.point.x, trace.point.y,
                            trace.color, trace.thickness)
       IN  paintTraces(paintPaths(s1, canvas, trace, 1), canvas, ind + 1)

paintToInd(s, canvas) ==
  IF s.thrown THEN s
  ELSE paintTraces(Call(s, "paintToInd", canvas), canvas, 0)

\* canvas.toBlob copies the bitmap when it is called and encodes the copy
\* later
toBlob(s, canvas) ==
  [s EXCEPT !.pendingBlobs[canvas] = @ + 1,
            !.snapshots[canvas] = Append(@, s.surface[canvas])]

\* the image loadImage can paint
Background(s) ==
  IF s.baseImage # NoImage /\ s.imageRequest = "available"
  THEN s.baseImage ELSE NoImage

traceChanged(s) ==
  IF s.thrown THEN s
  ELSE LET s1 == toBlob(s, "canvas")
           s2 == cleanPaint(s1, "canvasAnn")
           s3 == paintToInd(s2, "canvasAnn")
           s4 == toBlob(s3, "canvasAnn")
       IN  [Call(s4, "traceChanged", "") EXCEPT
              !.cycles = UpTo(@ + 1),
              !.lastExport = [canvas |-> s4.surface.canvas, canvasAnn |-> s4.surface.canvasAnn],
              !.exports = Append(@, [composed    |-> s4.surface.canvas,
                                     annotations |-> s4.surface.canvasAnn,
                                     background  |-> Background(s),
                                     traceList   |-> s.traceList,
                                     traceIndex  |-> s.traceIndex])]

\* --------------------------------------------------------------- TraceStore
\* mutant: the redo tail is not removed
resetTraceListKeepsTail(s) == Call(s, "splice", "")

resetTraceList(s) ==
  [Call(s, "splice", "") EXCEPT !.traceList = Splice(@, s.traceIndex + 1)]

RECURSIVE setTraceIndex(_, _)
RECURSIVE watchTraceIndHandler(_, _, _)
RECURSIVE moveIndex(_, _)
RECURSIVE cleanAll(_)
RECURSIVE resetTrace(_)
RECURSIVE changeIndexAndEmit(_, _)

\* assignment to the watched prop: a changed value runs the watcher
\* synchronously, an equal value does nothing. The setter catches and logs
\* what the watcher throws.
setTraceIndex(s, newValue) ==
  IF newValue = s.traceIndex
  THEN s
  ELSE [watchTraceIndHandler([s EXCEPT !.traceIndex = newValue],
                             newValue, s.traceIndex)
          EXCEPT !.thrown = FALSE]

\* mutant: the pointer is assigned without raising the suppression flag
changeIndexAndEmitNoFlag(s, newTaceIndex) ==
  LET s2 == setTraceIndex(s, newTaceIndex)
  IN  Emit(s2, "traceIndexChange", s2.traceIndex, NoDetail)

\* mutant: the watcher returns on the suppression flag without lowering it
watchTraceIndHandlerKeepsFlag(s, newValue, oldValue) ==
  IF s.traceIndexChangedFromInside
  THEN s
  ELSE IF newValue = EMPTY_TRACE_LIST_INDEX
       THEN cleanAll(s)
       ELSE moveIndex(s, oldValue - newValue)

\* mutant: the watcher does not test the suppression flag
watchTraceIndHandlerUnflagged(s, newValue, oldValue) ==
  IF newValue = EMPTY_TRACE_LIST_INDEX
  THEN cleanAll(s)
  ELSE moveIndex(s, oldValue - newValue)

changeIndexAndEmit(s, newTaceIndex) ==
  LET s1 == [s EXCEPT !.traceIndexChangedFromInside = TRUE]
      s2 == setTraceIndex(s1, newTaceIndex)
  IN  Emit(s2, "traceIndexChange", s2.traceIndex, NoDetail)

\* mutant: the list is truncated before the pointer is moved to -1
resetTraceListFirst(s) == setTraceIndex(resetTraceList(s), -1)

resetTrace(s) == resetTraceList(setTraceIndex(s, -1))

cleanAll(s) ==
  traceChanged(loadImage(cleanPaint(resetTrace(s), "canvas")))

\* mutant: the upper limit of the range test is off by one
moveIndexOffByOne(s, fowardPositionSum) ==
  IF s.traceIndex >= -1 /\ s.traceIndex <= Len(s.traceList)
  THEN traceChanged(paintToInd(loadImage(cleanPaint(s, "canvas")), "canvas"))
  ELSE changeIndexAndEmit(s, s.traceIndex + fowardPositionSum)

moveIndex(s, fowardPositionSum) ==
  IF s.traceIndex >= -1 /\ s.traceIndex <= Len(s.traceList) - 1
  THEN traceChanged(paintToInd(loadImage(cleanPaint(s, "canvas")), "canvas"))
  ELSE changeIndexAndEmit(s, s.traceIndex + fowardPositionSum)

watchTraceIndHandler(s, newValue, oldValue) ==
  IF s.traceIndexChangedFromInside
  THEN [s EXCEPT !.traceIndexChangedFromInside = FALSE]
  ELSE IF newValue = EMPTY_TRACE_LIST_INDEX
       THEN cleanAll(s)
       ELSE moveIndex(s, oldValue - newValue)

watchValueHandler(s, newValue) ==
  LET s1 == cleanPaint(resetTrace(s), "canvas")
  IN  [s1 EXCEPT !.baseImage = newValue, !.imageRequest = "unavailable",
                 !.pendingLoads = @ + 1]

\* -------------------------------------------------------------- InputRouter
getRelativePositionX(clientX) == clientX - CanvasRect.left
getRelativePositionY(clientY) == clientY - CanvasRect.top

startPainting(s, pageX, pageY) ==
  LET s1 == [s EXCEPT !.currentMousePositionX = getRelativePositionX(pageX),
                      !.currentMousePositionY = getRelativePositionY(pageY),
                      !.initPaint = TRUE]
      s2 == resetTraceList(s1)
      s3 == [s2 EXCEPT !.traceList =
               Append(@, [color     |-> s2.traceColor,
                          thickness |-> s2.traceThickness,
                          point     |-> [x |-> s2.currentMousePositionX,
                                         y |-> s2.currentMousePositionY],
                          paths     |-> <<>>])]
      s4 == changeIndexAndEmit(s3, s3.traceIndex + 1)
  IN  paintToInd(s4, "canvas")

\* mutant: the stroke is begun without testing disabled
handleMousedownAlways(s, pageX, pageY) ==
  startPainting([s EXCEPT !.listening = TRUE], pageX, pageY)

handleMousedown(s, pageX, pageY) ==
  IF ~s.disabled
  THEN startPainting([s EXCEPT !.listening = TRUE], pageX, pageY)
  ELSE [s EXCEPT !.refused = TRUE]

movePincel(s, pageX, pageY) ==
  IF ~s.initPaint
  THEN s
  ELSE LET s1 == [s EXCEPT
                    !.currentMousePositionX = getRelativePositionX(pageX),
                    !.currentMousePositionY = getRelativePositionY(pageY)]
       IN  joinPath(s1, "canvas",
                    s.currentMousePositionX, s.currentMousePositionY,
                    s1.currentMousePositionX, s1.currentMousePositionY,
                    s1.traceColor, s1.traceThickness, TRUE)

handleMousemove(s, pageX, pageY) ==
  IF ~s.disabled
  THEN movePincel(s, pageX, pageY)
  ELSE [s EXCEPT !.refused = TRUE]

finishPaint(s) ==
  IF ~s.disabled
  THEN traceChanged([s EXCEPT !.listening = FALSE, !.initPaint = FALSE])
  ELSE [s EXCEPT !.refused = TRUE]

\* ------------------------------------------------------------ ExportManager
\* the ids of the URLs of one canvas' blobs that the state still mentions
UsedIds(s, canvas) ==
  { u.id : u \in { v \in s.objectUrls \cup
                          { s.lastSavedImageUrl, s.lastSavedImageAnnUrl,
                            s.lastAnnotationsChange.annotatedImage,
                            s.lastAnnotationsChange.annotations } :
                   v.canvas = canvas } }

\* URL.createObjectURL: a URL that is different from every URL still known
createObjectURL(s, canvas) ==
  [canvas |-> canvas,
   id |-> CHOOSE n \in 1 .. (Cardinality(UsedIds(s, canvas)) + 1) :
            /\ n \notin UsedIds(s, canvas)
            /\ \A m \in 1 .. (n - 1) : m \in UsedIds(s, canvas)]

revokeObjectURL(s, url) == [s EXCEPT !.objectUrls = @ \ {url}]

emitAnnotationsChange(s) ==
  LET detail == [annotatedImage |-> s.lastSavedImageUrl,
                 annotations    |-> s.lastSavedImageAnnUrl]
  IN  [Emit(s, "annotationsChange", 0, detail)
         EXCEPT !.lastAnnotationsChange = detail,
                !.annotationsChanges = UpTo(@ + 1)]

\* mutant: the previous URL of the composed slot is not revoked
canvasBlobCallbackNoRevoke(s, blob) ==
  LET s1 == [s EXCEPT !.lastSavedImageUrl = NoUrl]
      url == createObjectURL(s, "canvas")
  IN  IF blob
      THEN emitAnnotationsChange(
             [s1 EXCEPT !.objectUrls = @ \cup {url},
                        !.lastSavedImageUrl = url])
      ELSE s1

\* mutant: the event is emitted before the new URL is stored in the slot
canvasBlobCallbackEmitFirst(s, blob) ==
  LET s1 == IF s.lastSavedImageUrl # NoUrl
            THEN [revokeObjectURL(s, s.lastSavedImageUrl)
                    EXCEPT !.lastSavedImageUrl = NoUrl]
            ELSE s
      url == createObjectURL(s, "canvas")
  IN  IF blob
      THEN [emitAnnotationsChange(s1)
              EXCEPT !.objectUrls = @ \cup {url},
                     !.lastSavedImageUrl = url]
      ELSE s1

\* the callback given to this.canvas.toBlob; blob = FALSE is a null blob, for
\* which createObjectURL gives no URL and the callback ends there
canvasBlobCallback(s, blob) ==
  LET s1 == IF s.lastSavedImageUrl # NoUrl
            THEN [revokeObjectURL(s, s.lastSavedImageUrl)
                    EXCEPT !.lastSavedImageUrl = NoUrl]
            ELSE s
      url == createObjectURL(s, "canvas")
  IN  IF blob
      THEN emitAnnotationsChange(
             [s1 EXCEPT !.objectUrls = @ \cup {url},
                        !.lastSavedImageUrl = url])
      ELSE s1

\* mutant: the annotation-only callback stores its URL without emitting
canvasAnnBlobCallbackSilent(s, blob) ==
  LET s1 == IF s.lastSavedImageAnnUrl # NoUrl
            THEN [revokeObjectURL(s, s.lastSavedImageAnnUrl)
                    EXCEPT !.lastSavedImageAnnUrl = NoUrl]
            ELSE s
      url == createObjectURL(s, "canvasAnn")
  IN  IF blob
      THEN [s1 EXCEPT !.objectUrls = @ \cup {url},
                      !.lastSavedImageAnnUrl = url]
      ELSE s1

\* the callback given to this.canvasAnn.toBlob
canvasAnnBlobCallback(s, blob) ==
  LET s1 == IF s.lastSavedImageAnnUrl # NoUrl
            THEN [revokeObjectURL(s, s.lastSavedImageAnnUrl)
                    EXCEPT !.lastSavedImageAnnUrl = NoUrl]
            ELSE s
      url == createObjectURL(s, "canvasAnn")
  IN  IF blob
      THEN emitAnnotationsChange(
             [s1 EXCEPT !.objectUrls = @ \cup {url},
                        !.lastSavedImageAnnUrl = url])
      ELSE s1

\* the load listener registered by watchValueHandler
imageLoadListener(s) == traceChanged(loadImage(s))

\* ------------------------------------------------------- loadImage: the fit
\* JavaScript numbers as exact fractions num / den, den > 0, in lowest terms
RECURSIVE GCD(_, _)
GCD(a, b) == IF b = 0 THEN a ELSE GCD(b, a % b)

Abs(n) == IF n < 0 THEN 0 - n ELSE n

Frac(n, d) ==
  LET g == GCD(Abs(n), d)
  IN  [num |-> n \div g, den |-> d \div g]

Num(n) == Frac(n, 1)

Minus(a, b) == Frac(a.num * b.den - b.num * a.den, a.den * b.den)
Plus(a, b)  == Frac(a.num * b.den + b.num * a.den, a.den * b.den)
Times(a, b) == Frac(a.num * b.num, a.den * b.den)
Over(a, b)  == Frac(a.num * b.den, a.den * b.num)     \* b > 0
Greater(a, b) == a.num * b.den > b.num * a.den
AtMost(a, b)  == ~Greater(a, b)

NoPlacement == [hostWidth |-> 0, hostHeight |-> 0, imgWidth |-> 0, imgHeight |-> 0, drawn |-> FALSE, newLeft |-> Num(0), newTop |-> Num(0), newImgWidth |-> Num(0), newImgHeight |-> Num(0)]

\* mutant: the width of an image that overflows the canvas height is the new
\* height times height / width instead of divided by it
loadImagePlacementTimesRatio(hostWidth, hostHeight, imgWidth, imgHeight) ==
  IF imgWidth > imgHeight
  THEN LET ratio        == Frac(imgHeight, imgWidth)
           newImgHeight == Frac(hostWidth * imgHeight, imgWidth)
       IN  IF Greater(newImgHeight, Num(hostHeight))
           THEN LET newImgWidth == Times(Num(hostHeight), ratio)
                IN  [newLeft |-> Over(Minus(Num(hostWidth), newImgWidth), Num(2)), newTop |-> Num(0), newImgWidth |-> newImgWidth, newImgHeight |-> Num(hostHeight)]
           ELSE [newLeft |-> Num(0), newTop |-> Over(Minus(Num(hostHeight), newImgHeight), Num(2)), newImgWidth |-> Num(hostWidth), newImgHeight |-> newImgHeight]
  ELSE LET ratio       == Frac(imgWidth, imgHeight)
           newImgWidth == Times(Num(hostHeight), ratio)
       IN  IF Greater(newImgWidth, Num(hostWidth))
           THEN LET newImgHeight == Over(Num(hostWidth), ratio)
                IN  [newLeft |-> Num(0), newTop |-> Over(Minus(Num(hostHeight), newImgHeight), Num(2)), newImgWidth |-> Num(hostWidth), newImgHeight |-> newImgHeight]
           ELSE [newLeft |-> Over(Minus(Num(hostWidth), newImgWidth), Num(2)), newTop |-> Num(0), newImgWidth |-> newImgWidth, newImgHeight |-> Num(hostHeight)]

\* the destination rectangle loadImage passes to drawImage
loadImagePlacement(hostWidth, hostHeight, imgWidth, imgHeight) ==
  IF imgWidth > imgHeight
  THEN LET ratio        == Frac(imgHeight, imgWidth)
           newImgHeight == Frac(hostWidth * imgHeight, imgWidth)
       IN  IF Greater(newImgHeight, Num(hostHeight))
           THEN LET newImgWidth == Over(Num(hostHeight), ratio)
                IN  [newLeft |-> Over(Minus(Num(hostWidth), newImgWidth), Num(2)), newTop |-> Num(0), newImgWidth |-> newImgWidth, newImgHeight |-> Num(hostHeight)]
           ELSE [newLeft |-> Num(0), newTop |-> Over(Minus(Num(hostHeight), newImgHeight), Num(2)), newImgWidth |-> Num(hostWidth), newImgHeight |-> newImgHeight]
  ELSE LET ratio       == Frac(imgWidth, imgHeight)
           newImgWidth == Times(Num(hostHeight), ratio)
       IN  IF Greater(newImgWidth, Num(hostWidth))
           THEN LET newImgHeight == Over(Num(hostWidth), ratio)
                IN  [newLeft |-> Num(0), newTop |-> Over(Minus(Num(hostHeight), newImgHeight), Num(2)), newImgWidth |-> Num(hostWidth), newImgHeight |-> newImgHeight]
           ELSE [newLeft |-> Over(Minus(Num(hostWidth), newImgWidth), Num(2)), newTop |-> Num(0), newImgWidth |-> newImgWidth, newImgHeight |-> Num(hostHeight)]

\* ------------------------------------------------------------ state machine
Constructed(tracked) ==
  /\ rendering = tracked
  /\ traceList = <<>>
  /\ traceIndex = -1
  /\ traceIndexChangedFromInside = FALSE
  /\ initPaint = FALSE
  /\ listening = FALSE
  /\ currentMousePositionX = 0
  /\ currentMousePositionY = 0
  /\ baseImage = NoImage
  /\ lastSavedImageUrl = NoUrl
  /\ lastSavedImageAnnUrl = NoUrl
  /\ disabled = FALSE
  /\ traceColor = "#000000"
  /\ traceThickness = 2
  /\ value = ""
  /\ pendingBlobs = [canvas |-> 0, canvasAnn |-> 0]
  /\ pendingLoads = 0
  /\ objectUrls = {}
  /\ emitted = <<>>
  /\ calls = <<>>
  /\ lastAnnotationsChange = NoDetail
  /\ cycles = 0
  /\ annotationsChanges = 0
  /\ imageRequest = "none"
  /\ surface = [canvas |-> Blank, canvasAnn |-> Blank]
  /\ snapshots = [canvas |-> << >>, canvasAnn |-> << >>]
  /\ savedImage = [canvas |-> Blank, canvasAnn |-> Blank]
  /\ exports = << >>
  /\ lastExport = [canvas |-> Blank, canvasAnn |-> Blank]
  /\ refused = FALSE
  /\ connected = TRUE

\* the component after construction, its bitmaps left blank
Init == Constructed(FALSE) /\ placement = NoPlacement

\* the component after construction, its bitmaps tracked
InitRendering == Constructed(TRUE) /\ placement = NoPlacement

\* the component after construction, with a canvas and a loaded background
\* image of any sizes
InitFit ==
  /\ Constructed(FALSE)
  /\ \E hostWidth, hostHeight, imgWidth, imgHeight \in Sides :
       placement = [NoPlacement EXCEPT !.hostWidth = hostWidth, !.hostHeight = hostHeight, !.imgWidth = imgWidth, !.imgHeight = imgHeight]

\* the component when a handler starts: the per-handler logs are empty
Begin ==
  [this EXCEPT !.emitted = <<>>, !.calls = <<>>, !.exports = <<>>,
               !.refused = FALSE]

Bounded(s) ==
  /\ Len(s.traceList) <= MaxTraces
  /\ s.pendingBlobs.canvas <= MaxPending
  /\ s.pendingBlobs.canvasAnn <= MaxPending
  /\ s.pendingLoads <= MaxLoads

Commit(s) ==
  /\ Bounded(s)
  /\ traceList' = s.traceList
  /\ traceIndex' = s.traceIndex
  /\ traceIndexChangedFromInside' = s.traceIndexChangedFromInside
  /\ initPaint' = s.initPaint
  /\ listening' = s.listening
  /\ currentMousePositionX' = s.currentMousePositionX
  /\ currentMousePositionY' = s.currentMousePositionY
  /\ baseImage' = s.baseImage
  /\ lastSavedImageUrl' = s.lastSavedImageUrl
  /\ lastSavedImageAnnUrl' = s.lastSavedImageAnnUrl
  /\ disabled' = s.disabled
  /\ traceColor' = s.traceColor
  /\ traceThickness' = s.traceThickness
  /\ value' = s.value
  /\ pendingBlobs' = s.pendingBlobs
  /\ pendingLoads' = s.pendingLoads
  /\ objectUrls' = s.objectUrls
  /\ emitted' = s.emitted
  /\ calls' = s.calls
  /\ lastAnnotationsChange' = s.lastAnnotationsChange
  /\ cycles' = s.cycles
  /\ annotationsChanges' = s.annotationsChanges
  /\ imageRequest' = s.imageRequest
  /\ surface' = s.surface
  /\ snapshots' = s.snapshots
  /\ savedImage' = s.savedImage
  /\ exports' = s.exports
  /\ lastExport' = s.lastExport
  /\ placement' = s.placement
  /\ refused' = s.refused
  /\ connected' = s.connected
  /\ rendering' = s.rendering

\* mousedown / touchstart on the canvas at page position p
MouseDownAt(p) == Commit(handleMousedown(Begin, p.x, p.y))

MouseDown(P) == \E p \in P : MouseDownAt(p)

\* mousemove / touchmove, delivered while the listeners are registered
MouseMoveTo(p) ==
  /\ listening
  /\ Commit(handleMousemove(Begin, p.x, p.y))

MouseMove(P) == \E p \in P : MouseMoveTo(p)

\* mouseup / mouseout / touchend / touchcancel / touchleave
MouseUp ==
  /\ listening
  /\ Commit(finishPaint(Begin))

\* the host writes k to the traceIndex property
WriteTraceIndexTo(k) == Commit(setTraceIndex(Begin, k))

WriteTraceIndex(W) == \E k \in W : WriteTraceIndexTo(k)

\* the host writes the value property (a changed value runs its watcher)
WriteValueTo(src) ==
  /\ src # value
  /\ Commit(watchValueHandler([Begin EXCEPT !.value = src], src))

WriteValue(S) == \E src \in S : WriteValueTo(src)

WriteDisabled ==
  \E b \in BOOLEAN :
    /\ b # disabled
    /\ Commit([Begin EXCEPT !.disabled = b])

WriteTraceColor(C) ==
  \E c \in C :
    /\ c # traceColor
    /\ Commit([Begin EXCEPT !.traceColor = c])

WriteTraceThickness(T) ==
  \E t \in T :
    /\ t # traceThickness
    /\ Commit([Begin EXCEPT !.traceThickness = t])

\* the Image whose request ends is this.baseImage (current), or an Image
\* that a later write of value has replaced
Loading(current) ==
  /\ pendingLoads > 0
  /\ IF current
     THEN imageRequest = "unavailable"
     ELSE pendingLoads > (IF imageRequest = "unavailable" THEN 1 ELSE 0)

\* an Image created by watchValueHandler fires its load event
ImageLoad ==
  \E current \in BOOLEAN :
    /\ Loading(current)
    /\ Commit(imageLoadListener(
                [Begin EXCEPT !.pendingLoads = @ - 1,
                              !.imageRequest =
                                 IF current THEN "available" ELSE @]))

\* an Image created by watchValueHandler fails to load: no listener runs
ImageError ==
  \E current \in BOOLEAN :
    /\ Loading(current)
    /\ Commit([Begin EXCEPT !.pendingLoads = @ - 1,
                            !.imageRequest = IF current THEN "broken" ELSE @])

RemoveAt(seq, i) == SubSeq(seq, 1, i - 1) \o SubSeq(seq, i + 1, Len(seq))

\* the i-th pending toBlob of the composed canvas completes, with a blob of
\* the bitmap it copied or with null; pending encodes complete in any order
CanvasBlobOf(i, blob) ==
  /\ pendingBlobs.canvas > 0
  /\ i \in 1 .. Len(snapshots.canvas)
  /\ Commit([canvasBlobCallback(
               [Begin EXCEPT !.pendingBlobs.canvas = @ - 1,
                             !.snapshots.canvas = RemoveAt(@, i)], blob)
               EXCEPT !.savedImage.canvas =
                        IF blob THEN snapshots.canvas[i] ELSE Blank])

CanvasBlobWith(blob) ==
  \E i \in 1 .. Len(snapshots.canvas) : CanvasBlobOf(i, blob)

CanvasBlob == \E blob \in BOOLEAN : CanvasBlobWith(blob)

\* the i-th pending toBlob of the annotation-only canvas completes
CanvasAnnBlobOf(i, blob) ==
  /\ pendingBlobs.canvasAnn > 0
  /\ i \in 1 .. Len(snapshots.canvasAnn)
  /\ Commit([canvasAnnBlobCallback(
               [Begin EXCEPT !.pendingBlobs.canvasAnn = @ - 1,
                             !.snapshots.canvasAnn = RemoveAt(@, i)], blob)
               EXCEPT !.savedImage.canvasAnn =
                        IF blob THEN snapshots.canvasAnn[i] ELSE Blank])

CanvasAnnBlobWith(blob) ==
  \E i \in 1 .. Len(snapshots.canvasAnn) : CanvasAnnBlobOf(i, blob)

CanvasAnnBlob == \E blob \in BOOLEAN : CanvasAnnBlobWith(blob)

\* the element is removed from the document; the class has no
\* disconnectedCallback, so no code of the component runs
Disconnect ==
  /\ connected
  /\ Commit([Begin EXCEPT !.connected = FALSE])

\* no asynchronous callback (toBlob, image load) is pending
Quiet ==
  /\ pendingBlobs.canvas = 0
  /\ pendingBlobs.canvasAnn = 0
  /\ pendingLoads = 0

\* the trace at the pointer, if any, has fewer than n segments
ActiveRoom(n) == HasTrace(this) => Len(traceList[traceIndex + 1].paths) < n

\* Spec: the trace store under every order of pointer events, traceIndex
\* writes, background changes and disabled toggles, with strokes of one style.
\* The callbacks of an export cycle and of an image load run, in any order,
\* before the next pointer event or host write, and every encode gives a blob.
Next ==
  \/ Quiet /\ MouseDown(Pages)
  \/ Quiet /\ ActiveRoom(MaxPaths) /\ MouseMove(Pages)
  \/ Quiet /\ MouseUp
  \/ Quiet /\ WriteTraceIndex(IndexWrites)
  \/ Quiet /\ WriteValue(Sources)
  \/ Quiet /\ WriteDisabled
  \/ ImageLoad
  \/ ImageError
  \/ CanvasBlobWith(TRUE)
  \/ CanvasAnnBlobWith(TRUE)

Spec == Init /\ [][Next]_vars

\* SpecStyle: strokes begun under every order of colour and thickness writes,
\* traceIndex writes and disabled toggles; callbacks scheduled as in Spec.
NextStyle ==
  \/ Quiet /\ MouseDown(Pages)
  \/ Quiet /\ MouseUp
  \/ Quiet /\ WriteTraceIndex(IndexWrites)
  \/ Quiet /\ WriteDisabled
  \/ Quiet /\ WriteTraceColor(Colors)
  \/ Quiet /\ WriteTraceThickness(Thicknesses)
  \/ CanvasBlobWith(TRUE)
  \/ CanvasAnnBlobWith(TRUE)

SpecStyle == Init /\ [][NextStyle]_vars

\* SpecExport: the export manager under every interleaving of pointer events,
\* host writes, image loads and encode completions, an encode giving a blob or
\* none, with one background and lists of at most ExportMaxTraces traces of
\* one style.
NextExport ==
  \/ traceIndex + 2 <= ExportMaxTraces /\ MouseDown(Pages)
  \/ MouseUp
  \/ WriteTraceIndex(ExportWrites)
  \/ WriteValue(ExportSources)
  \/ ImageLoad
  \/ ImageError
  \/ CanvasBlob
  \/ CanvasAnnBlob

SpecExport == Init /\ [][NextExport]_vars

\* the traceIndex values the host writes in SpecRestyle and SpecStroke
StrokeWrites == { EMPTY_TRACE_LIST_INDEX } \cup (-1 .. (StrokeMaxTraces - 1))

RECURSIVE Segments(_)
\* the number of segments recorded in the list
Segments(list) ==
  IF list = << >> THEN 0 ELSE Len(Head(list).paths) + Segments(Tail(list))

\* SpecRestyle: lists of at most StrokeMaxTraces traces with at most MaxPaths
\* segments in all, under every order of pointer events, colour and
\* thickness writes and traceIndex writes; callbacks scheduled as in Spec.
NextRestyle ==
  \/ Quiet /\ traceIndex + 2 <= StrokeMaxTraces /\ MouseDown(Pages)
  \/ Quiet /\ Segments(traceList) < MaxPaths /\ MouseMove(Pages)
  \/ Quiet /\ MouseUp
  \/ Quiet /\ WriteTraceIndex(StrokeWrites)
  \/ Quiet /\ WriteTraceColor(Colors)
  \/ Quiet /\ WriteTraceThickness(Thicknesses)
  \/ CanvasBlobWith(TRUE)
  \/ CanvasAnnBlobWith(TRUE)

SpecRestyle == Init /\ [][NextRestyle]_vars

\* SpecStroke: the strokes of one pointer (a down only in Idle), begun at one
\* page position and moved over two, with at most MaxSegments segments in all
\* in lists of at most StrokeMaxTraces traces, under every order of pointer
\* events, traceIndex writes and disabled toggles; callbacks scheduled as in
\* Spec.
NextStroke ==
  \/ Quiet /\ ~listening /\ traceIndex + 2 <= StrokeMaxTraces
           /\ MouseDown(Pages)
  \/ Quiet /\ Segments(traceList) < MaxSegments /\ MouseMove(StrokePages)
  \/ Quiet /\ MouseUp
  \/ Quiet /\ WriteTraceIndex(StrokeWrites)
  \/ Quiet /\ WriteDisabled
  \/ CanvasBlobWith(TRUE)
  \/ CanvasAnnBlobWith(TRUE)

SpecStroke == Init /\ [][NextStroke]_vars

\* SpecRender: the bitmaps of the two canvases under every order of pointer
\* events, traceIndex writes, background changes and image loads that
\* succeed or fail, with strokes of at most MaxPaths segments in
\* lists of at most StrokeMaxTraces traces; a stroke begins on one page
\* position and moves to the other; callbacks scheduled as in Spec.
NextRender ==
  \/ Quiet /\ traceIndex + 2 <= StrokeMaxTraces /\ MouseDown(Pages)
  \/ Quiet /\ ActiveRoom(MaxPaths) /\ MouseMove(StrokePages \ Pages)
  \/ Quiet /\ MouseUp
  \/ Quiet /\ WriteTraceIndex(StrokeWrites)
  \/ Quiet /\ WriteValue(Sources)
  \/ ImageLoad
  \/ ImageError
  \/ CanvasBlobWith(TRUE)
  \/ CanvasAnnBlobWith(TRUE)

SpecRender == InitRendering /\ [][NextRender]_vars

\* SpecRace: export cycles started while the encodes of earlier cycles are
\* still pending (at most MaxPending per canvas), by strokes and traceIndex
\* writes on lists of at most StrokeMaxTraces traces; every encode gives a
\* blob and the pending encodes of a canvas complete in any order.
NextRace ==
  \/ traceIndex + 2 <= StrokeMaxTraces /\ MouseDown(Pages)
  \/ MouseUp
  \/ WriteTraceIndex(StrokeWrites)
  \/ CanvasBlobWith(TRUE)
  \/ CanvasAnnBlobWith(TRUE)

SpecRace == InitRendering /\ [][NextRace]_vars

\* loadImage computes the rectangle for the canvas and image at hand and
\* draws the image into it
LoadImageFit ==
  /\ ~placement.drawn
  /\ LET p == loadImagePlacement(placement.hostWidth, placement.hostHeight, placement.imgWidth, placement.imgHeight)
     IN  Commit([Begin EXCEPT !.placement = [@ EXCEPT !.drawn = TRUE, !.newLeft = p.newLeft, !.newTop = p.newTop, !.newImgWidth = p.newImgWidth, !.newImgHeight = p.newImgHeight]])

\* SpecFit: the fit step of loadImage for every canvas size and image size
\* with sides in Sides.
NextFit == LoadImageFit

SpecFit == InitFit /\ [][NextFit]_vars

\* SpecLifecycle: strokes and their export cycles, an encode giving a blob or
\* none, until the element is removed from the document; the callbacks of
\* the encodes already started still run after that.
NextLifecycle ==
  \/ connected /\ Quiet /\ traceIndex + 2 <= StrokeMaxTraces /\ MouseDown(Pages)
  \/ connected /\ Quiet /\ MouseUp
  \/ CanvasBlob
  \/ CanvasAnnBlob
  \/ Disconnect

SpecLifecycle == Init /\ [][NextLifecycle]_vars

\* ------------------------------------------------------------------- claims
\* positions in a call log of the calls of fn
CallsOf(log, fn) == { i \in DOMAIN log : log[i].fn = fn }

\* the call log holds a replay of the composed canvas up to k and, after it,
\* the start of an export cycle
ReplayThenExport(log, k) ==
  \E i, j, m \in DOMAIN log :
    /\ i < j /\ j < m
    /\ log[i].fn = "cleanPaint" /\ log[i].canvas = "canvas"
    /\ log[j].fn = "paintToInd" /\ log[j].canvas = "canvas" /\ log[j].ind = k
    /\ log[m].fn = "traceChanged"

IndexChangeOf(n) ==
  [name |-> "traceIndexChange", index |-> n, detail |-> NoDetail]

AnnotationsChangeOf(d) ==
  [name |-> "annotationsChange", index |-> 0, detail |-> d]

InRange(k) == k >= -1 /\ k <= Len(traceList) - 1

NoneBlobsPending == pendingBlobs.canvas = 0 /\ pendingBlobs.canvasAnn = 0

\* C1: after every completed handler the pointer is within [-1, len - 1].
C1_IndexInRange == traceIndex >= -1 /\ traceIndex <= Len(traceList) - 1

\* C1 witness: three strokes, then a write beyond the list was turned down
\* and the pointer is back at the last trace.
C1_Witness ==
  /\ Len(traceList) = 3
  /\ traceIndex = 2
  /\ calls = << >>
  /\ emitted = << IndexChangeOf(2) >>

\* C2: a pointer down while not disabled keeps traces 0..i, drops the redo
\* tail, appends one new trace with the current colour and thickness, the
\* canvas-relative start point and no segment, and moves the pointer to it.
C2_BeginTraceTruncates ==
  [][ \A p \in Pages :
        (~disabled /\ MouseDownAt(p)) =>
          /\ Len(traceList') = traceIndex + 2
          /\ traceIndex' = traceIndex + 1
          /\ traceIndex' = Len(traceList') - 1
          /\ \A j \in 1 .. (traceIndex + 1) : traceList'[j] = traceList[j]
          /\ traceList'[traceIndex + 2] =
               [color     |-> traceColor,
                thickness |-> traceThickness,
                point     |-> [x |-> p.x - CanvasRect.left,
                               y |-> p.y - CanvasRect.top],
                paths     |-> << >>] ]_vars

\* C2 witness: three strokes, pointer moved to 0, new stroke begun: the list
\* has two traces and the pointer is 1.
C2_Witness ==
  /\ Len(traceList) = 2
  /\ traceIndex = 1
  /\ initPaint
  /\ \E i \in CallsOf(calls, "splice") : calls[i].ind = 0 /\ calls[i].len = 3

\* C3: a host write of k within [-1, len - 1], other than the current
\* pointer, sets the pointer to k, leaves the list as it was, replays to k
\* and starts one export cycle.
C3_InRangeWriteIsUndoRedo ==
  [][ \A k \in IndexWrites :
        (InRange(k) /\ k # traceIndex /\ WriteTraceIndexTo(k)) =>
          /\ traceIndex' = k
          /\ traceList' = traceList
          /\ ReplayThenExport(calls', k)
          /\ Cardinality(CallsOf(calls', "traceChanged")) = 1
          /\ pendingBlobs'.canvas = pendingBlobs.canvas + 1
          /\ pendingBlobs'.canvasAnn = pendingBlobs.canvasAnn + 1 ]_vars

\* C4: a host write that is neither the reset sentinel nor within
\* [-1, len - 1] leaves list and pointer as they were, triggers no replay and
\* no export cycle, and emits traceIndexChange.
C4_OutOfRangeWriteIsRequest ==
  [][ \A k \in IndexWrites :
        (k # EMPTY_TRACE_LIST_INDEX /\ ~InRange(k) /\ WriteTraceIndexTo(k)) =>
          /\ traceList' = traceList
          /\ traceIndex' = traceIndex
          /\ CallsOf(calls', "paintToInd") = {}
          /\ CallsOf(calls', "traceChanged") = {}
          /\ pendingBlobs' = pendingBlobs
          /\ \E i \in DOMAIN emitted' : emitted'[i].name = "traceIndexChange"
        ]_vars

\* C4 witness: three strokes, an undo to the first, then a write outside the
\* list: the pointer is still 0 and only the notification happened.
C4_Witness ==
  /\ Len(traceList) = 3
  /\ traceIndex = 0
  /\ calls = << >>
  /\ emitted = << IndexChangeOf(0) >>

\* C5: a host write of the reset sentinel and a change of the background
\* source both end with an empty list and the pointer at -1.
C5_ResetEmptiesStore ==
  [][ ( \/ WriteTraceIndexTo(EMPTY_TRACE_LIST_INDEX)
        \/ \E src \in Sources : WriteValueTo(src) ) =>
        (traceList' = << >> /\ traceIndex' = -1) ]_vars

\* C5 witness: the sentinel was written during a stroke with three traces in
\* the list.
C5_Witness ==
  /\ traceList = << >>
  /\ traceIndex = -1
  /\ initPaint
  /\ \E i \in CallsOf(calls, "splice") : calls[i].len = 3
  /\ \E i \in CallsOf(calls, "traceChanged") : calls[i].len = 0

\* C6: each slot has at most one object URL that is created and not revoked,
\* and it is the one the slot holds.
C6_OneLiveHandlePerSlot ==
  /\ \A c \in {"canvas", "canvasAnn"} :
       Cardinality({ u \in objectUrls : u.canvas = c }) <= 1
  /\ objectUrls = {lastSavedImageUrl, lastSavedImageAnnUrl} \ {NoUrl}

\* C6 witness: both slots hold their second URL while further encodes are
\* pending.
C6_Witness ==
  /\ lastSavedImageUrl = [canvas |-> "canvas", id |-> 2]
  /\ lastSavedImageAnnUrl = [canvas |-> "canvasAnn", id |-> 2]
  /\ pendingBlobs.canvas > 0
  /\ pendingBlobs.canvasAnn > 0

\* C7: the handles of the latest annotationsChange are not revoked as long as
\* no later annotationsChange has been emitted.
C7_NotifiedHandlesStayLive ==
  \A u \in { lastAnnotationsChange.annotatedImage,
             lastAnnotationsChange.annotations } :
    u = NoUrl \/ u \in objectUrls

\* the first stroke of a new component has ended and nothing else has started
\* an export cycle
FirstStroke ==
  /\ cycles = 1
  /\ Len(traceList) = 1
  /\ traceIndex = 0
  /\ ~listening
  /\ value = ""

FirstStrokeDone == FirstStroke /\ NoneBlobsPending

\* C8 as claimed: the first stroke gives exactly two annotationsChange events
\* and each carries two non-null handles.
C8_BothNotificationsComplete ==
  /\ [](FirstStrokeDone => annotationsChanges = 2)
  /\ [][ (FirstStroke /\ annotationsChanges' = annotationsChanges + 1) =>
           /\ lastAnnotationsChange'.annotatedImage # NoUrl
           /\ lastAnnotationsChange'.annotations # NoUrl ]_vars

\* C8 amended: the first stroke gives exactly two annotationsChange events;
\* the first carries the handle of the slot whose encode completed first and
\* null for the other slot, the second carries two non-null handles.
C8_SecondNotificationComplete ==
  /\ [](FirstStrokeDone => annotationsChanges = 2)
  /\ [][ (FirstStroke /\ annotationsChanges' = annotationsChanges + 1) =>
           IF annotationsChanges = 0
           THEN \/ /\ pendingBlobs'.canvas < pendingBlobs.canvas
                   /\ lastAnnotationsChange'.annotatedImage # NoUrl
                   /\ lastAnnotationsChange'.annotations = NoUrl
                \/ /\ pendingBlobs'.canvasAnn < pendingBlobs.canvasAnn
                   /\ lastAnnotationsChange'.annotatedImage = NoUrl
                   /\ lastAnnotationsChange'.annotations # NoUrl
           ELSE /\ lastAnnotationsChange'.annotatedImage # NoUrl
                /\ lastAnnotationsChange'.annotations # NoUrl ]_vars

\* C8 witness: the first stroke has ended, both encodes have completed and
\* the second event carried both handles.
C8_Witness ==
  /\ FirstStrokeDone
  /\ annotationsChanges = 2
  /\ emitted = << AnnotationsChangeOf(lastAnnotationsChange) >>
  /\ lastAnnotationsChange.annotatedImage # NoUrl
  /\ lastAnnotationsChange.annotations # NoUrl

\* what a completed encode with a blob does to its slot and emits
PublishesPair(slot, slot_, other, other_) ==
  /\ slot_ # NoUrl
  /\ slot_ # slot
  /\ slot_ \in objectUrls'
  /\ other_ = other
  /\ other_ = NoUrl \/ other_ \in objectUrls'
  /\ emitted' = << AnnotationsChangeOf(
                     [annotatedImage |-> lastSavedImageUrl',
                      annotations    |-> lastSavedImageAnnUrl']) >>

\* C9: an export cycle starts one encode per slot, and a completed encode
\* with a blob emits exactly one annotationsChange carrying the handles the
\* two slots hold then, each live or null.
C9_OneNotificationPerEncode ==
  [][ /\ LET n == Cardinality(CallsOf(calls', "traceChanged"))
         IN  n > 0 => /\ pendingBlobs'.canvas = pendingBlobs.canvas + n
                      /\ pendingBlobs'.canvasAnn = pendingBlobs.canvasAnn + n
      /\ CanvasBlobWith(TRUE) =>
           PublishesPair(lastSavedImageUrl, lastSavedImageUrl',
                         lastSavedImageAnnUrl, lastSavedImageAnnUrl')
      /\ CanvasAnnBlobWith(TRUE) =>
           PublishesPair(lastSavedImageAnnUrl, lastSavedImageAnnUrl',
                         lastSavedImageUrl, lastSavedImageUrl') ]_vars

\* C9 witness: an encode of a second cycle has just replaced a handle and
\* emitted the pair, the other encodes still pending.
C9_Witness ==
  /\ emitted = << AnnotationsChangeOf(
                    [annotatedImage |-> [canvas |-> "canvas", id |-> 2],
                     annotations    |-> [canvas |-> "canvasAnn", id |-> 1]]) >>
  /\ pendingBlobs.canvasAnn > 0
  /\ cycles >= 2

\* C10: an encode without a blob emits nothing, is not retried and leaves its
\* slot holding the live handle it held before.
C10_FailedEncodeLeavesSlot ==
  [][ /\ CanvasBlobWith(FALSE) =>
           /\ emitted' = << >>
           /\ pendingBlobs'.canvas = pendingBlobs.canvas - 1
           /\ lastSavedImageUrl' = lastSavedImageUrl
           /\ objectUrls' = objectUrls
      /\ CanvasAnnBlobWith(FALSE) =>
           /\ emitted' = << >>
           /\ pendingBlobs'.canvasAnn = pendingBlobs.canvasAnn - 1
           /\ lastSavedImageAnnUrl' = lastSavedImageAnnUrl
           /\ objectUrls' = objectUrls ]_vars

\* the event e is in the log
Emitted(log, e) == \E i \in DOMAIN log : log[i] = e

\* C11: traceIndexChange carrying the new pointer is emitted whenever the
\* pointer is updated by a begun stroke, by an accepted in-range write, or by
\* a reset (sentinel write, background change) that moves it to -1.
C11_PointerUpdatesAreNotified ==
  [][ /\ \A p \in Pages :
           (~disabled /\ MouseDownAt(p)) =>
             Emitted(emitted', IndexChangeOf(traceIndex'))
      /\ \A k \in IndexWrites :
           (InRange(k) /\ k # traceIndex /\ WriteTraceIndexTo(k)) =>
             Emitted(emitted', IndexChangeOf(k))
      /\ ( /\ \/ WriteTraceIndexTo(EMPTY_TRACE_LIST_INDEX)
              \/ \E src \in Sources : WriteValueTo(src)
           /\ traceIndex # -1
           /\ traceIndex' = -1 ) =>
             Emitted(emitted', IndexChangeOf(-1)) ]_vars

\* C12: every up/cancel/leave event received in Drawing returns the router
\* to Idle (listeners removed, painting flag cleared) and starts exactly one
\* export cycle, whatever the value of disabled.
C12_UpEndsStroke ==
  [][ MouseUp =>
        /\ ~listening'
        /\ ~initPaint'
        /\ Len(exports') = 1
        /\ pendingBlobs'.canvas = pendingBlobs.canvas + 1
        /\ pendingBlobs'.canvasAnn = pendingBlobs.canvasAnn + 1 ]_vars

\* C13: while disabled is set, a down event begins no trace and does not
\* enter Drawing, and no pointer event (down, move, up) changes the trace
\* list or the pointer or emits traceIndexChange.
C13_DisabledIgnoresPointer ==
  [][ ( /\ disabled
        /\ \/ \E p \in Pages : MouseDownAt(p)
           \/ \E p \in Pages : MouseMoveTo(p)
           \/ MouseUp ) =>
        /\ traceList' = traceList
        /\ traceIndex' = traceIndex
        /\ listening' = listening
        /\ initPaint' = initPaint
        /\ emitted' = << >> ]_vars

\* C13 witness: a pointer event was turned down in Idle while the list had a
\* redo tail that a begun trace would have dropped.
C13_Witness ==
  /\ refused
  /\ disabled
  /\ ~listening
  /\ ~initPaint
  /\ Len(traceList) = 2
  /\ traceIndex = 0

\* the step begins a trace, which is the j-th of the list
BeginsTrace(j) ==
  /\ ~disabled
  /\ j = traceIndex + 2
  /\ \E p \in Pages : MouseDownAt(p)

\* C14: a trace records the colour and thickness the inputs had when it was
\* begun; no later step, whether a write of either input during the stroke, a
\* move or anything else, changes the recorded colour or thickness of a trace
\* that stays in the list, and a write of either input leaves the whole list
\* as it is.
C14_StyleFixedAtBegin ==
  [][ /\ \A j \in 1 .. Len(traceList') :
           IF BeginsTrace(j)
           THEN /\ traceList'[j].color = traceColor
                /\ traceList'[j].thickness = traceThickness
           ELSE j <= Len(traceList) =>
                  /\ traceList'[j].color = traceList[j].color
                  /\ traceList'[j].thickness = traceList[j].thickness
      /\ (WriteTraceColor(Colors) \/ WriteTraceThickness(Thicknesses)) =>
           traceList' = traceList ]_vars

\* C14 witness: colour and thickness were both written during a stroke and a
\* move has then appended a segment to the active trace, which keeps the
\* style it was begun with.
C14_Witness ==
  /\ initPaint
  /\ traceIndex = Len(traceList) - 1
  /\ traceIndex >= 0
  /\ traceList[traceIndex + 1].color # traceColor
  /\ traceList[traceIndex + 1].thickness # traceThickness
  /\ Len(traceList[traceIndex + 1].paths) = 1
  /\ CallsOf(calls, "joinPath") # {}

\* C15: once the component is destroyed no object URL it created is live.
C15_TeardownRevokes == ~connected => objectUrls = {}

\* the step begins a trace in SpecStroke, which is the j-th of the list
BeginsStroke(j) ==
  /\ ~disabled
  /\ j = traceIndex + 2
  /\ \E p \in StrokePages : MouseDownAt(p)

\* trace b is trace a with one more segment at the end
OneMoreSegment(a, b) ==
  /\ Len(b.paths) = Len(a.paths) + 1
  /\ b = [a EXCEPT !.paths = Append(@, b.paths[Len(b.paths)])]

\* C16: a trace that stays in the list is changed by no step, except that a
\* segment may be appended to the trace begun by the most recent down while
\* its stroke is in progress; hence a trace whose stroke has ended is never
\* modified again.
C16_EndedTracesAreFrozen ==
  [][ \A j \in 1 .. Len(traceList) :
        (j <= Len(traceList') /\ ~BeginsStroke(j)) =>
          \/ traceList'[j] = traceList[j]
          \/ /\ initPaint
             /\ j = Len(traceList)
             /\ OneMoreSegment(traceList[j], traceList'[j]) ]_vars

\* the shapes of one trace: its start dot, then its segments in order
TraceShapes(trace) ==
  << Shape("fillRect", "", trace.point.x, trace.point.y,
           trace.point.x, trace.point.y, trace.color, trace.thickness) >>
  \o [ n \in 1 .. Len(trace.paths) |->
         Shape("stroke", "",
               trace.paths[n].lastMousePositionX,
               trace.paths[n].lastMousePositionY,
               trace.paths[n].currentMousePositionX,
               trace.paths[n].currentMousePositionY,
               trace.color, trace.thickness) ]

RECURSIVE PaintAll(_, _)
PaintAll(bitmap, shapes) ==
  IF shapes = << >> THEN bitmap
  ELSE PaintAll(Paint(bitmap, Head(shapes)), Tail(shapes))

RECURSIVE ShapesUpTo(_, _)
\* the shapes of the first n traces of the list
ShapesUpTo(list, n) ==
  IF n = 0 THEN << >>
  ELSE ShapesUpTo(list, n - 1) \o TraceShapes(list[n])

\* a full replay: a cleared surface, the background if there is one, then
\* traces 0 .. k
ReplayOf(background, list, k) ==
  PaintAll(IF background = NoImage THEN Blank
           ELSE << Shape("drawImage", background, 0, 0, 0, 0, "", 0) >>,
           ShapesUpTo(list, k + 1))

\* C17: the composed bitmap handed to the encoder at the start of an export
\* cycle is the full replay of the background and traces 0 .. index, and the
\* annotation-only bitmap is the same replay without background.
C17_ExportsShowReplay ==
  \A i \in DOMAIN exports :
    /\ exports[i].composed =
         ReplayOf(exports[i].background, exports[i].traceList,
                  exports[i].traceIndex)
    /\ exports[i].annotations =
         ReplayOf(NoImage, exports[i].traceList, exports[i].traceIndex)

\* the segment from the last pointer position to canvas position of page p
SegmentTo(p) ==
  [lastMousePositionX    |-> currentMousePositionX,
   lastMousePositionY    |-> currentMousePositionY,
   currentMousePositionX |-> getRelativePositionX(p.x),
   currentMousePositionY |-> getRelativePositionY(p.y)]

\* what the claim says a move to page position p does to list and pointer
MoveEffect(p) ==
  /\ traceIndex' = traceIndex
  /\ IF traceIndex >= 0
     THEN traceList' = [traceList EXCEPT ![traceIndex + 1].paths = Append(@, SegmentTo(p))]
     ELSE traceList' = traceList

C19_WriteLeavesReplay ==
  [][ \A k \in StrokeWrites :
        (InRange(k) /\ k # traceIndex /\ WriteTraceIndexTo(k)) =>
          surface'.canvas = ReplayOf(Background(this), traceList, k) ]_vars

\* C20: once no encode is pending, the bitmap behind the live handle of each
\* slot is the one the most recent export cycle handed to the encoder, and
\* the last annotationsChange carries those two handles.
C20_SettledSlotsAreLatest ==
  (pendingBlobs.canvas = 0 /\ pendingBlobs.canvasAnn = 0 /\ cycles > 0) =>
    /\ savedImage = lastExport
    /\ lastAnnotationsChange.annotatedImage = lastSavedImageUrl
    /\ lastAnnotationsChange.annotations = lastSavedImageAnnUrl

\* C21: a pointer update made from inside does not run the external index
\* path. A begun stroke moves the pointer up by one with only its own list
\* truncation and its own paint of the composed canvas: no clear, no further
\* truncation, no export cycle. An out-of-range write is answered by
\* restoring the pointer with no canvas or list operation and no export
\* cycle at all.
C21_InsideUpdateSkipsWatcherPath ==
  [][ /\ \A p \in Pages :
           (~disabled /\ MouseDownAt(p)) =>
             /\ traceIndex' = traceIndex + 1
             /\ Cardinality(CallsOf(calls', "splice")) = 1
             /\ Cardinality(CallsOf(calls', "paintToInd")) = 1
             /\ CallsOf(calls', "cleanPaint") = {}
             /\ CallsOf(calls', "traceChanged") = {}
             /\ pendingBlobs' = pendingBlobs
             /\ cycles' = cycles
      /\ \A k \in IndexWrites :
           (k # EMPTY_TRACE_LIST_INDEX /\ ~InRange(k) /\ WriteTraceIndexTo(k)) =>
             /\ traceIndex' = traceIndex
             /\ traceList' = traceList
             /\ calls' = << >>
             /\ pendingBlobs' = pendingBlobs
             /\ cycles' = cycles ]_vars

\* C21 witness: with two traces in the list and the pointer at the first, a
\* write beyond the list was answered from inside: the pointer is restored,
\* the suppression flag is down again and nothing was painted or exported.
C21_Witness ==
  /\ Len(traceList) = 2
  /\ traceIndex = 0
  /\ ~traceIndexChangedFromInside
  /\ calls = << >>
  /\ emitted = << IndexChangeOf(0) >>
  /\ NoneBlobsPending

\* s is the component after the host's write of k, a value other than the
\* pointer, and the write was taken up by the watcher: the sentinel has reset
\* the store, a value within [-1, len - 1] is the pointer and the composed
\* canvas was cleared for its replay, any other value was answered by
\* restoring the pointer and signalling it
ActedUpon(s, k) ==
  IF k = EMPTY_TRACE_LIST_INDEX
  THEN /\ s.traceList = << >>
       /\ s.traceIndex = -1
       /\ CallsOf(s.calls, "splice") # {}
  ELSE IF InRange(k)
       THEN /\ s.traceIndex = k
            /\ \E i \in CallsOf(s.calls, "cleanPaint") : s.calls[i].canvas = "canvas"
       ELSE /\ s.traceIndex = traceIndex
            /\ Emitted(s.emitted, IndexChangeOf(traceIndex))

\* C22: the suppression flag traceIndexChangedFromInside is down whenever no
\* handler is running, so that every host write of a value other than the
\* current pointer, in whatever state the component has reached, is acted
\* upon: reset, replay, or out-of-range signalling.
C22_NoWriteIsSwallowed ==
  /\ ~traceIndexChangedFromInside
  /\ \A k \in IndexWrites :
       k # traceIndex => ActedUpon(setTraceIndex(Begin, k), k)

\* C22 witness: three strokes, each of which raised the flag from inside,
\* then a host write of 0 that was taken up as an undo.
C22_Witness ==
  /\ Len(traceList) = 3
  /\ traceIndex = 0
  /\ ~traceIndexChangedFromInside
  /\ emitted = << >>
  /\ \E i \in CallsOf(calls, "cleanPaint") : calls[i].canvas = "canvas" /\ calls[i].ind = 0

\* C23: one host write of the reset sentinel starts exactly one export cycle,
\* that is one encode per canvas; the pointer assignment made inside the
\* reset starts no replay and no export cycle of its own.
C23_ResetExportsOnce ==
  [][ WriteTraceIndexTo(EMPTY_TRACE_LIST_INDEX) =>
        /\ Cardinality(CallsOf(calls', "traceChanged")) = 1
        /\ \A i \in CallsOf(calls', "paintToInd") : calls'[i].canvas # "canvas"
        /\ pendingBlobs'.canvas = pendingBlobs.canvas + 1
        /\ pendingBlobs'.canvasAnn = pendingBlobs.canvasAnn + 1 ]_vars

\* the segments of the trace form one path from its start point
Contiguous(trace) ==
  \A n \in 1 .. Len(trace.paths) :
    IF n = 1
    THEN /\ trace.paths[1].lastMousePositionX = trace.point.x
         /\ trace.paths[1].lastMousePositionY = trace.point.y
    ELSE /\ trace.paths[n].lastMousePositionX = trace.paths[n - 1].currentMousePositionX
         /\ trace.paths[n].lastMousePositionY = trace.paths[n - 1].currentMousePositionY

\* C24: in every reachable state the segments of every trace form a
\* contiguous path: the first starts at the trace's start point and each
\* later one starts where the one before it ends.
C24_TracesAreContiguous ==
  \A j \in 1 .. Len(traceList) : Contiguous(traceList[j])

\* the placement is the given rectangle
PlacedAt(left, top, width, height) ==
  /\ placement.newLeft = left
  /\ placement.newTop = top
  /\ placement.newImgWidth = width
  /\ placement.newImgHeight = height

====
